---- MODULE Spec2Model ----
(***************************************************************************)
(* Model of the query path of the database-query backend:                  *)
(*   API endpoint -> execute_query_with_service -> DatabaseService         *)
(*   -> validate_and_transform_sql -> DatabaseAdapterRegistry -> adapter,  *)
(* with the query history (audit log) written by save_query_history and    *)
(* trimmed by cleanup_old_queries.                                         *)
(*                                                                         *)
(* A SQL string is modelled by what sqlglot makes of it: the sequence of   *)
(* statements it holds, the dialects whose grammar accepts it, and whether *)
(* its spelling is already the one sqlglot's generator prints.             *)
(***************************************************************************)
EXTENDS Integers, Sequences, FiniteSets, TLC

\* Python's None: for a string-valued field the token None, for an
\* integer-valued field the empty sequence (Some(n) holds the value n).
None == "None"
Nil == <<>>
Some(n) == <<n>>

(***************************************************************************)
(* Bounds of the model                                                     *)
(***************************************************************************)
MaxStmts == 2
MaxRuns == 2
MaxTime == 1

(***************************************************************************)
(* Program constants                                                       *)
(***************************************************************************)
DefaultLimit == 1000
HistoryKeep == 50

DatabaseType == {"postgresql", "mysql"}
Dialects == {"postgres", "mysql"}

(***************************************************************************)
(* SQL strings                                                             *)
(***************************************************************************)
Kinds == {"select", "union", "insert", "update", "delete", "create"}
LimitVals == {50, 5000}
Caps == {100, DefaultLimit}

\* A statement: the class of its root expression, the LIMIT of the root
\* (None when it has none), whether it has an OFFSET, and whether a
\* subquery or CTE inside it has a LIMIT of its own.
SelectStmts ==
  [kind : {"select"}, limit : {Some(n) : n \in LimitVals} \cup {Nil}, offset : BOOLEAN, inner : BOOLEAN]

OtherStmts ==
  [kind : Kinds \ {"select"}, limit : {Nil}, offset : {FALSE}, inner : {FALSE}]

Stmts == SelectStmts \cup OtherStmts

StmtSeqs == UNION {[1..n -> Stmts] : n \in 0..MaxStmts}

\* A SQL string: its statements (separated by ';'), the dialects that parse
\* it (none: no grammar accepts it), and whether it is spelled the way
\* Expression.sql() prints.
SqlTexts == [stmts : StmtSeqs, dialects : SUBSET Dialects, canon : BOOLEAN]

\* Number of LIMIT clauses written in a statement / a string.
StmtLimits(s) == (IF s.limit # Nil THEN 1 ELSE 0) + (IF s.inner THEN 1 ELSE 0)

RECURSIVE SeqLimits(_)
SeqLimits(ss) == IF ss = <<>> THEN 0 ELSE StmtLimits(Head(ss)) + SeqLimits(Tail(ss))

CountLimits(sql) == SeqLimits(sql.stmts)

(***************************************************************************)
(* sql_validator.py                                                        *)
(***************************************************************************)
dialect_of(db_type) == IF db_type = "postgresql" THEN "postgres" ELSE "mysql"

\* sqlglot.parse_one: parses the whole string, raises ParseError when the
\* grammar rejects it or when it holds no statement, and returns the FIRST
\* statement otherwise.
parse_one(sql, dialect) ==
  IF dialect \notin sql.dialects \/ sql.stmts = <<>>
  THEN [ok |-> FALSE, ast |-> None]
  ELSE [ok |-> TRUE, ast |-> Head(sql.stmts)]

\* isinstance(parsed, exp.Select)
is_select(ast) == ast.kind = "select"

\* parsed.find(exp.Limit): any Limit node in the tree, the root's or a nested one
find_limit(ast) == ast.limit # Nil \/ ast.inner

\* parsed.sql(dialect=dialect): prints the one parsed statement
to_sql(ast, sql) == [stmts |-> <<ast>>, dialects |-> sql.dialects, canon |-> TRUE]

\* A deny-list in place of the allow-list: only the three DML roots are refused.
validate_sql_denylist(sql, db_type) ==
  LET parsed == parse_one(sql, dialect_of(db_type))
  IN  IF ~parsed.ok
      THEN [valid |-> FALSE, error |-> "SQL parse error"]
      ELSE IF parsed.ast.kind \in {"insert", "update", "delete"}
      THEN [valid |-> FALSE, error |-> "Only SELECT statements are allowed"]
      ELSE [valid |-> TRUE, error |-> None]

validate_sql(sql, db_type) ==
  LET parsed == parse_one(sql, dialect_of(db_type))
  IN  IF ~parsed.ok
      THEN [valid |-> FALSE, error |-> "SQL parse error"]
      ELSE IF ~is_select(parsed.ast)
      THEN [valid |-> FALSE, error |-> "Only SELECT statements are allowed"]
      ELSE [valid |-> TRUE, error |-> None]

\* The cap argument ignored: the default is always injected.
add_limit_default_cap(sql, limit, db_type) ==
  LET parsed == parse_one(sql, dialect_of(db_type))
  IN  IF ~parsed.ok THEN sql
      ELSE IF find_limit(parsed.ast) THEN sql
      ELSE to_sql([parsed.ast EXCEPT !.limit = Some(DefaultLimit)], sql)

\* The cap enforced as a ceiling over a larger LIMIT of the root.
add_limit_ceiling(sql, limit, db_type) ==
  LET parsed == parse_one(sql, dialect_of(db_type))
  IN  IF ~parsed.ok THEN sql
      ELSE IF find_limit(parsed.ast) /\ ~(parsed.ast.limit # Nil /\ parsed.ast.limit[1] > limit) THEN sql
      ELSE to_sql([parsed.ast EXCEPT !.limit = Some(limit)], sql)

add_limit_if_missing(sql, limit, db_type) ==
  LET parsed == parse_one(sql, dialect_of(db_type))
  IN  IF ~parsed.ok THEN sql
      ELSE IF find_limit(parsed.ast) THEN sql
      ELSE to_sql([parsed.ast EXCEPT !.limit = Some(limit)], sql)

validate_and_transform_sql(sql, limit, db_type) ==
  LET v == validate_sql(sql, db_type)
  IN  IF ~v.valid
      THEN [raised |-> TRUE, error |-> v.error, sql |-> None]
      ELSE [raised |-> FALSE, error |-> None, sql |-> add_limit_if_missing(sql, limit, db_type)]

(***************************************************************************)
(* State                                                                   *)
(***************************************************************************)
VARIABLES
  connections,   \* table databaseconnections: name -> [db_type, url]
  history,       \* table queryhistory: the set of its rows
  next_id,       \* next autoincrement id of queryhistory
  trimmed,       \* the rows cleanup_old_queries has deleted
  now,           \* the clock, in seconds
  instances,     \* DatabaseAdapterRegistry._instances: cache key -> adapter
  adapters,      \* the adapter objects: [name, url, pool]
  sent,          \* the statements the target databases were asked to run
  tokens,        \* the export tokens issued so far
  req,           \* the API requests being served, one per slot
  runs,          \* number of requests started
  vsql, vtype, vcap, vres,   \* a call of one validator function and its result
  pools,         \* the connection pools created so far: id -> [url, db_type, open]
  connection_pools,  \* _connection_pools of db_connection.py and of
                     \* mysql_connection.py: db_type -> (name -> pool)
  metadata,      \* table databasemetadata: the set of its rows
  next_meta_id,  \* next autoincrement id of databasemetadata
  op,            \* the last management or metadata call and its result
  proc           \* the concurrent callers of get_connection_pool

\* The variables of connection management and of the metadata cache.
xvars == <<pools, connection_pools, metadata, next_meta_id, op, proc>>

vars == <<connections, history, next_id, trimmed, now, instances, adapters, sent,
          tokens, req, runs, vsql, vtype, vcap, vres,
          pools, connection_pools, metadata, next_meta_id, op, proc>>

svars == <<connections, history, next_id, trimmed, now, instances, adapters, sent,
           tokens, req, runs, pools, connection_pools, metadata, next_meta_id, op, proc>>

\* The requests are served one at a time.
Req == {1}

(***************************************************************************)
(* Inputs of the requests                                                  *)
(***************************************************************************)
Names == {"A", "B", "ghost"}

Sel(limit, inner) == [kind |-> "select", limit |-> limit, offset |-> FALSE, inner |-> inner]
Del == [kind |-> "delete", limit |-> Nil, offset |-> FALSE, inner |-> FALSE]
Text(stmts, dialects) == [stmts |-> stmts, dialects |-> dialects, canon |-> FALSE]

\* "select * from users", "select * from users limit 5000",
\* "delete from users", "select * from users limit 50; delete from users",
\* "select * from where"
QueryTexts ==
  { Text(<<Sel(Nil, FALSE)>>, Dialects),
    Text(<<Sel(Some(5000), FALSE)>>, Dialects),
    Text(<<Del>>, Dialects),
    Text(<<Sel(Some(50), FALSE), Del>>, Dialects),
    Text(<<Sel(Nil, FALSE)>>, {}) }

NoSql == [stmts |-> <<>>, dialects |-> {}, canon |-> FALSE]

\* Numbers of rows a query returns.
RowCounts == {0, 2}

ExecErrors == {"permission denied"}
PoolErrors == {"connection refused"}
StoreError == "database is locked"

\* export_service.py: EXPORT_TOKEN_EXPIRY_MINUTES, in seconds
ExportTokenExpiry == 300

ForgedToken == [database |-> "A", sql |-> Text(<<Del>>, Dialects), exp |-> 0, signed |-> FALSE]

(***************************************************************************)
(* query.py: the query history                                             *)
(***************************************************************************)
QueryHistory(id, database_name, sql, row_count, execution_time_ms, success, error_message) ==
  [id |-> id, database_name |-> database_name, sql_text |-> sql,
   executed_at |-> now, execution_time_ms |-> execution_time_ms,
   row_count |-> row_count, success |-> success, error_message |-> error_message,
   query_source |-> "manual"]

RowsOf(h, name) == {q \in h : q.database_name = name}

\* cleanup_old_queries: the rows of `name' ordered by executed_at DESC, those
\* after the first HistoryKeep are deleted.  Rows with equal executed_at
\* come in either order, so the result is one of the sets D of the
\* len - HistoryKeep oldest rows.
\* The WHERE clause on database_name left out: the rows of every connection
\* are ranked together.
cleanup_any_name(h, name) ==
  LET all == h
      k == Cardinality(all) - HistoryKeep
  IN  IF k <= 0 THEN {{}}
      ELSE LET t == CHOOSE t \in {q.executed_at : q \in all} :
                      /\ Cardinality({q \in all : q.executed_at < t}) < k
                      /\ Cardinality({q \in all : q.executed_at <= t}) >= k
               older == {q \in all : q.executed_at < t}
               ties == {q \in all : q.executed_at = t}
           IN  {older \cup X : X \in {Y \in SUBSET ties : Cardinality(Y) = k - Cardinality(older)}}

cleanup_old_queries(h, name) ==
  LET all == RowsOf(h, name)
      k == Cardinality(all) - HistoryKeep
  IN  IF k <= 0 THEN {{}}
      ELSE LET t == CHOOSE t \in {q.executed_at : q \in all} :
                      /\ Cardinality({q \in all : q.executed_at < t}) < k
                      /\ Cardinality({q \in all : q.executed_at <= t}) >= k
               older == {q \in all : q.executed_at < t}
               ties == {q \in all : q.executed_at = t}
           IN  {older \cup X : X \in {Y \in SUBSET ties : Cardinality(Y) = k - Cardinality(older)}}

\* save_query_history: insert the row and commit, then cleanup_old_queries.
\* With trim_fails the cleanup raises after the insert was committed.
\* h is the table before; the result is the set of the possible outcomes,
\* each the table after and the rows deleted.
save_query_history(h, row, trim_fails) ==
  IF trim_fails THEN {[h |-> h \cup {row}, deleted |-> {}]}
  ELSE {[h |-> (h \cup {row}) \ D, deleted |-> D] : D \in cleanup_old_queries(h \cup {row}, row.database_name)}

(***************************************************************************)
(* registry.py                                                             *)
(***************************************************************************)
\* The key made of the connection name alone.
cache_key_by_name(db_type, name) == <<"adapter", name>>

\* cache_key = f"{db_type.value}:{config.name}": the type values hold no
\* colon, so the key determines the type and the name.
cache_key(db_type, name) == <<db_type, name>>

NewAdapterId == Cardinality(DOMAIN adapters) + 1

\* get_adapter: the cached instance for the key, created from the config
\* on the first call.  Both members of DatabaseType are registered, so the
\* ValueError for an unregistered type does not arise.
get_adapter_instances(db_type, name) ==
  IF cache_key(db_type, name) \in DOMAIN instances THEN instances
  ELSE instances @@ (cache_key(db_type, name) :> NewAdapterId)

get_adapter_adapters(db_type, name, url) ==
  IF cache_key(db_type, name) \in DOMAIN instances THEN adapters
  ELSE adapters @@ (NewAdapterId :> [name |-> name, url |-> url, db_type |-> db_type, pool |-> Nil])

\* asyncpg.create_pool / aiomysql.create_pool: a new open pool to `url'.
NewPoolId == Cardinality(DOMAIN pools) + 1

create_pool(url, db_type) ==
  pools @@ (NewPoolId :> [url |-> url, db_type |-> db_type, open |-> TRUE])

(***************************************************************************)
(* Initial state                                                           *)
(***************************************************************************)
IdleReq ==
  [pc |-> "idle", endpoint |-> None, name |-> None, db_type |-> None,
   sql |-> NoSql, validated |-> NoSql, adapter |-> Nil, start |-> 0, executed |-> FALSE,
   written |-> <<>>, status |-> 0, raised |-> None, error |-> None,
   res_sql |-> NoSql, res_rows |-> Nil, res_ms |-> Nil]

\* The history connection A has when the process starts: none, or
\* HistoryKeep rows of earlier queries, two per second.
InitCounts == {0, HistoryKeep}

InitRows(name, count, base) ==
  { [id |-> base + i, database_name |-> name,
     sql_text |-> Text(<<Sel(Some(50), FALSE)>>, Dialects),
     executed_at |-> (i + 1) \div 2, execution_time_ms |-> Some(0),
     row_count |-> Some(0), success |-> TRUE, error_message |-> None,
     query_source |-> "manual"] : i \in 1..count }

T0 == (HistoryKeep + 1) \div 2

InitValidatorIdle ==
  /\ vsql = NoSql /\ vtype = "postgresql" /\ vcap = DefaultLimit /\ vres = [fn |-> None]

\* No call made yet.
NoOp == [fn |-> None, n |-> 0]

\* No pool, no cached metadata, no management call, no concurrent caller.
InitIdle ==
  /\ pools = <<>>
  /\ connection_pools = [t \in DatabaseType |-> <<>>]
  /\ metadata = {}
  /\ next_meta_id = 1
  /\ op = NoOp
  /\ proc = <<>>

Init ==
  /\ connections = ("A" :> [db_type |-> "postgresql", url |-> "postgresql://a"]) @@
                   ("B" :> [db_type |-> "mysql", url |-> "mysql://b"])
  /\ \E count \in InitCounts : history = InitRows("A", count, 0)
  /\ next_id = HistoryKeep + 1
  /\ trimmed = {}
  /\ now = T0
  /\ instances = <<>>
  /\ adapters = <<>>
  /\ sent = {}
  /\ tokens = {}
  /\ req = [r \in Req |-> IdleReq]
  /\ runs = 0
  /\ InitValidatorIdle
  /\ InitIdle

(***************************************************************************)
(* query_wrapper.py / database_service.py: the orchestrator                *)
(***************************************************************************)
Free(r) == req[r].pc \in {"idle", "done"} /\ runs < MaxRuns

\* An API request that ends before the orchestrator is called.
Reject(r, endpoint, name, status) ==
  /\ req' = [req EXCEPT ![r] = [IdleReq EXCEPT !.pc = "done",
                                  !.endpoint = endpoint, !.name = name, !.status = status]]
  /\ runs' = runs + 1
  /\ UNCHANGED <<connections, history, next_id, trimmed, now, instances, adapters, sent, tokens>>

ErrorStatus(endpoint, raised) ==
  IF endpoint = "query" /\ raised = "SqlValidationError" THEN 400 ELSE 500

\* The row both except clauses of the wrapper save.
failed_entry_no_message(id, rq, error) ==
  QueryHistory(id, rq.name, rq.sql, Nil, Nil, FALSE, None)

failed_entry(id, rq, error) ==
  QueryHistory(id, rq.name, rq.sql, Nil, Nil, FALSE, error)

\* The row saved after a successful execution.
success_entry(id, rq, row_count, execution_time_ms) ==
  QueryHistory(id, rq.name, rq.sql, Some(row_count), Some(execution_time_ms), TRUE, None)

\* The handler of an exception raised by database_service.execute_query:
\* save the failed query, re-raise.  The save itself may raise (trim_fails),
\* and then that exception is the one that leaves the handler.
HandleError(r, rq, raised, error, trim_fails) ==
  \E s \in save_query_history(history, failed_entry(next_id, rq, error), trim_fails) :
     /\ history' = s.h
     /\ trimmed' = trimmed \cup s.deleted
     /\ next_id' = next_id + 1
     /\ LET out == IF trim_fails THEN "OperationalError" ELSE raised
            msg == IF trim_fails THEN StoreError ELSE error
        IN  req' = [req EXCEPT ![r] = [rq EXCEPT !.pc = "done",
                      !.written = Append(rq.written, next_id),
                      !.raised = out, !.error = msg,
                      !.status = ErrorStatus(rq.endpoint, out)]]

\* execute_query_with_service up to its first suspension: validate and
\* rewrite, fetch the adapter, start the clock.
Orchestrate(r, endpoint, name, conn, sql, Faults) ==
  LET rq == [IdleReq EXCEPT !.endpoint = endpoint, !.name = name,
                            !.db_type = conn.db_type, !.sql = sql]
      t == validate_and_transform_sql(sql, DefaultLimit, conn.db_type)
  IN  /\ runs' = runs + 1
      /\ IF t.raised
         THEN /\ \E f \in Faults : HandleError(r, rq, "SqlValidationError", t.error, f)
              /\ UNCHANGED <<connections, now, instances, adapters, sent, tokens>>
         ELSE /\ instances' = get_adapter_instances(conn.db_type, name)
              /\ adapters' = get_adapter_adapters(conn.db_type, name, conn.url)
              /\ req' = [req EXCEPT ![r] = [rq EXCEPT !.pc = "pool", !.validated = t.sql,
                            !.adapter = Some(instances'[cache_key(conn.db_type, name)]),
                            !.start = now]]
              /\ UNCHANGED <<connections, history, next_id, trimmed, now, sent, tokens>>

\* POST /{name}/query
ApiQuery(r, name, sql, Faults) ==
  /\ Free(r)
  /\ IF name \notin DOMAIN connections
     THEN Reject(r, "query", name, 404)
     ELSE Orchestrate(r, "query", name, connections[name], sql, Faults)
  /\ UNCHANGED <<vsql, vtype, vcap, vres>>
  /\ UNCHANGED xvars

\* validate_export_token: the signature and the expiry
validate_export_token(token) == token.signed /\ token.exp >= now

\* GET /{name}/export/query
ApiExport(r, name, token, Faults) ==
  /\ Free(r)
  /\ IF ~validate_export_token(token) THEN Reject(r, "export", name, 401)
     ELSE IF name \notin DOMAIN connections THEN Reject(r, "export", name, 404)
     ELSE Orchestrate(r, "export", name, connections[name], token.sql, Faults)
  /\ UNCHANGED <<vsql, vtype, vcap, vres>>
  /\ UNCHANGED xvars

\* adapter.execute_query, first step: get_connection_pool creates the pool
\* of the adapter when it has none; the creation may raise.
GetPool(r, Faults) ==
  LET rq == req[r]
      a == rq.adapter[1]
  IN  /\ rq.pc = "pool"
      /\ \/ /\ adapters[a].pool = Nil
            /\ pools' = create_pool(adapters[a].url, adapters[a].db_type)
            /\ adapters' = [adapters EXCEPT ![a].pool = Some(NewPoolId)]
            /\ req' = [req EXCEPT ![r].pc = "fetch"]
            /\ UNCHANGED <<history, next_id, trimmed>>
         \/ /\ adapters[a].pool # Nil
            /\ req' = [req EXCEPT ![r].pc = "fetch"]
            /\ UNCHANGED <<adapters, pools, history, next_id, trimmed>>
         \/ /\ adapters[a].pool = Nil
            /\ \E e \in PoolErrors, f \in Faults : HandleError(r, rq, "Exception", e, f)
            /\ UNCHANGED <<adapters, pools>>
      /\ UNCHANGED <<connections, now, instances, sent, tokens, runs, vsql, vtype, vcap, vres>>
      /\ UNCHANGED <<connection_pools, metadata, next_meta_id, op, proc>>

\* The text handed to the adapter is the submitted one.
Statement_submitted(rq) ==
  [name |-> adapters[rq.adapter[1]].name,
   url |-> adapters[rq.adapter[1]].url, sql |-> rq.sql]

\* adapter.execute_query(validated_sql)
Statement(rq) ==
  [name |-> adapters[rq.adapter[1]].name,
   url |-> adapters[rq.adapter[1]].url, sql |-> rq.validated]

\* conn.fetch(sql) raises: database_service logs and re-raises, the wrapper
\* saves the failed query and re-raises.
FetchRaises(r, Faults) ==
  LET rq == req[r]
  IN  /\ rq.pc = "fetch"
      /\ sent' = sent \cup {Statement(rq)}
      /\ \E e \in ExecErrors, f \in Faults :
           HandleError(r, [rq EXCEPT !.executed = TRUE], "Exception", e, f)
      /\ UNCHANGED <<connections, now, instances, adapters, tokens, runs, vsql, vtype, vcap, vres>>
      /\ UNCHANGED xvars

\* conn.fetch(sql) returns k rows: the wrapper saves the query and returns
\* the QueryResult; the query endpoint adds the export URLs.
FetchReturns(r, k, Faults) ==
  LET rq == req[r]
      ms == (now - rq.start) * 1000
      row == success_entry(next_id, rq, k, ms)
  IN  /\ rq.pc = "fetch"
      /\ sent' = sent \cup {Statement(rq)}
      /\ \E f \in Faults :
           IF ~f
           THEN /\ \E s \in save_query_history(history, row, FALSE) :
                     /\ history' = s.h
                     /\ trimmed' = trimmed \cup s.deleted
                /\ next_id' = next_id + 1
                /\ req' = [req EXCEPT ![r] = [rq EXCEPT !.pc = "done", !.status = 200, !.executed = TRUE,
                              !.written = Append(rq.written, next_id),
                              !.res_sql = rq.sql, !.res_rows = Some(k), !.res_ms = Some(ms)]]
                /\ tokens' = IF rq.endpoint = "query"
                             THEN tokens \cup {[database |-> rq.name, sql |-> rq.sql,
                                                exp |-> now + ExportTokenExpiry, signed |-> TRUE]}
                             ELSE tokens
           ELSE \* the save raises after its insert: the except Exception
                \* clause of the wrapper saves a second, failed, entry
                /\ \E f2 \in Faults :
                     \E s \in save_query_history(history \cup {row},
                                failed_entry(next_id + 1, rq, StoreError), f2) :
                        /\ history' = s.h
                        /\ trimmed' = trimmed \cup s.deleted
                /\ next_id' = next_id + 2
                /\ req' = [req EXCEPT ![r] = [rq EXCEPT !.pc = "done", !.status = 500, !.executed = TRUE,
                              !.written = rq.written \o <<next_id, next_id + 1>>,
                              !.raised = "OperationalError", !.error = StoreError]]
                /\ tokens' = tokens
      /\ UNCHANGED <<connections, now, instances, adapters, runs, vsql, vtype, vcap, vres>>
      /\ UNCHANGED xvars

\* Time passes while a request waits for the target database.
Tick ==
  /\ now < T0 + MaxTime
  /\ \E r \in Req : req[r].pc \in {"pool", "fetch"}
  /\ now' = now + 1
  /\ UNCHANGED <<connections, history, next_id, trimmed, instances, adapters, sent, tokens,
                 req, runs, vsql, vtype, vcap, vres>>
  /\ UNCHANGED xvars

NextWith(Faults) ==
  \/ \E r \in Req, name \in Names, sql \in QueryTexts : ApiQuery(r, name, sql, Faults)
  \/ \E r \in Req, name \in Names, token \in tokens \cup {ForgedToken} : ApiExport(r, name, token, Faults)
  \/ \E r \in Req : GetPool(r, Faults)
  \/ \E r \in Req : FetchRaises(r, Faults)
  \/ \E r \in Req, k \in RowCounts : FetchReturns(r, k, Faults)
  \/ Tick

\* The audit store works.
Next == NextWith({FALSE})

Spec == Init /\ [][Next]_vars

\* cleanup_old_queries may raise.
NextFault == NextWith(BOOLEAN)

SpecFault == Init /\ [][NextFault]_vars

(***************************************************************************)
(* api/v1/databases.py, database_service.py, services/metadata.py,         *)
(* connection_factory.py, main.py: connection management, the metadata     *)
(* cache and the shutdown handler.  The handlers run one at a time.        *)
(***************************************************************************)
MaxOps == 2

\* The URLs a client registers, by scheme.
PgUrls == {"postgresql://a", "postgresql://a2", "postgresql://down"}
MyUrls == {"mysql://b"}
OtherUrls == {"sqlite://c"}
Urls == PgUrls \cup MyUrls \cup OtherUrls

\* The hosts that refuse connections.
Down == {"postgresql://down"}
Reachable(url) == url \notin Down

\* utils/db_parser.py
detect_database_type(url) ==
  IF url \in PgUrls THEN "postgresql"
  ELSE IF url \in MyUrls THEN "mysql"
  ELSE "ValueError"

\* What an extraction of the schema returns: the {tables, views} dictionary.
SchemaV1 == [tables |-> <<"users">>, views |-> <<>>]
SchemaV2 == [tables |-> <<"users", "orders">>, views |-> <<"active_users">>]
Payloads == {SchemaV1, SchemaV2}

\* json.dumps / json.loads of a {tables, views} dictionary.  The payload is
\* made of strings, integers, booleans, None, lists and string-keyed
\* dictionaries only, which the text form represents exactly.
json_dumps(d) == <<"json", d>>
json_loads(s) == s[2]

\* No API request is in flight, and the process has not been shut down.
Serial == \A r \in Req : req[r].pc \in {"idle", "done"}
Running == op.fn # "shutdown"

Restrict(f, S) == [x \in S |-> f[x]]

\* adapter.close_connection_pool(): closes the pool the adapter holds.
close_pool_pools(ads, ps, a) ==
  IF ads[a].pool = Nil THEN ps ELSE [ps EXCEPT ![ads[a].pool[1]].open = FALSE]

close_pool_adapters(ads, a) == [ads EXCEPT ![a].pool = Nil]

\* DatabaseService.test_connection: the adapter the registry holds under
\* the name "test" tries to connect to the url of its own config.
test_connection_adapter(db_type) ==
  get_adapter_instances(db_type, "test")[cache_key(db_type, "test")]

test_connection_url(db_type, url) ==
  get_adapter_adapters(db_type, "test", url)[test_connection_adapter(db_type)].url

\* The names that hold a character other than a letter, a digit, a hyphen
\* or an underscore.
InvalidNames == {"a b"}

\* Every name taken as valid.
name_is_valid_unchecked(name) == TRUE

\* name.replace("-", "").replace("_", "").isalnum()
name_is_valid(name) == name \notin InvalidNames

\* PUT /api/v1/dbs/{name}
PutDatabase(name, url, given) ==
  LET detected == detect_database_type(url)
      db_type == IF given # None THEN given ELSE detected
      call == [fn |-> "put", n |-> op.n + 1, name |-> name, url |-> url, given |-> given]
  IN  /\ Running /\ Serial /\ op.n < MaxOps
      /\ IF ~name_is_valid(name) \/ detected = "ValueError" \/ db_type # detected
         THEN /\ op' = call @@ [status |-> 400, tested |-> FALSE]
              /\ UNCHANGED <<connections, instances, adapters>>
         ELSE LET attempted == test_connection_url(db_type, url)
                  success == Reachable(attempted)
              IN  /\ instances' = get_adapter_instances(db_type, "test")
                  /\ adapters' = get_adapter_adapters(db_type, "test", url)
                  /\ op' = call @@ [status |-> IF success THEN 200 ELSE 400, tested |-> TRUE,
                                    db_type |-> db_type, adapter |-> test_connection_adapter(db_type),
                                    attempted |-> attempted, success |-> success]
                  /\ connections' =
                       IF ~success THEN connections
                       ELSE [n \in DOMAIN connections \cup {name} |->
                               IF n = name THEN [db_type |-> db_type, url |-> url]
                               ELSE connections[n]]
      /\ UNCHANGED <<history, next_id, trimmed, now, sent, tokens, req, runs,
                     vsql, vtype, vcap, vres>>
      /\ UNCHANGED <<pools, connection_pools, metadata, next_meta_id, proc>>

\* DELETE /api/v1/dbs/{name}: close_adapter for the stored type and the
\* name, then the row of the connection is deleted.
DeleteDatabase(name) ==
  LET call == [fn |-> "delete", n |-> op.n + 1, name |-> name]
  IN  /\ Running /\ Serial /\ op.n < MaxOps
      /\ IF name \notin DOMAIN connections
         THEN /\ op' = call @@ [status |-> 404]
              /\ UNCHANGED <<connections, instances, adapters, pools>>
         ELSE LET key == cache_key(connections[name].db_type, name)
              IN  /\ IF key \in DOMAIN instances
                     THEN /\ instances' = Restrict(instances, DOMAIN instances \ {key})
                          /\ pools' = close_pool_pools(adapters, pools, instances[key])
                          /\ adapters' = close_pool_adapters(adapters, instances[key])
                     ELSE UNCHANGED <<instances, adapters, pools>>
                  /\ connections' = Restrict(connections, DOMAIN connections \ {name})
                  /\ op' = call @@ [status |-> 204]
      /\ UNCHANGED <<history, next_id, trimmed, now, sent, tokens, req, runs,
                     vsql, vtype, vcap, vres>>
      /\ UNCHANGED <<connection_pools, metadata, next_meta_id, proc>>

\* models/metadata.py: timedelta(hours=24), in seconds
StaleAfter == 24 * 3600

\* The staleness test with the boundary included.
is_stale_at_ttl(m) == now - m.fetched_at >= StaleAfter

\* DatabaseMetadata.is_stale
is_stale(m) == now - m.fetched_at > StaleAfter

\* session.exec(select(DatabaseMetadata).where(database_name == name)).first()
first_row(md, name) ==
  LET rows == {m \in md : m.database_name = name}
  IN  IF rows = {} THEN Nil
      ELSE Some(CHOOSE m \in rows : \A o \in rows : m.id <= o.id)

get_cached_metadata(md, name) ==
  LET m == first_row(md, name)
  IN  IF m # Nil /\ ~is_stale(m[1]) THEN m ELSE Nil

table_count(d) == Len(d.tables) + Len(d.views)

DatabaseMetadata(id, name, d) ==
  [id |-> id, database_name |-> name, metadata_json |-> json_dumps(d),
   fetched_at |-> now, table_count |-> table_count(d)]

\* A put that always inserts a new row.
cache_metadata_append(md, name, d) ==
  md \cup {DatabaseMetadata(next_meta_id, name, d)}

\* cache_metadata: the row of the name is updated in place, or inserted.
cache_metadata(md, name, d) ==
  LET existing == first_row(md, name)
  IN  IF existing # Nil
      THEN (md \ {existing[1]}) \cup {DatabaseMetadata(existing[1].id, name, d)}
      ELSE md \cup {DatabaseMetadata(next_meta_id, name, d)}

\* The cache consulted also when a refresh is forced.
fetch_uses_cache_ignoring_force(name, force_refresh) ==
  get_cached_metadata(metadata, name) # Nil

\* fetch_metadata, the test at its head: the cached payload is returned.
fetch_uses_cache(name, force_refresh) ==
  ~force_refresh /\ get_cached_metadata(metadata, name) # Nil

\* An extraction that raises, in place of the {tables, views} dictionary.
ExtractionRaises == [raises |-> "permission denied"]
Raised(d) == "raises" \in DOMAIN d

\* The same outcomes of the extraction whatever the url of the pool.
Always(S) == [u \in Urls |-> S]

\* The row of the name dropped when the extraction raises.
metadata_after_fetch_clearing(md, name, d) ==
  IF Raised(d) THEN {m \in md : m.database_name # name} ELSE cache_metadata(md, name, d)

\* fetch_metadata, its tail: cache_metadata is called with the dictionary
\* the extraction returned, and is not reached when the extraction raises.
metadata_after_fetch(md, name, d) ==
  IF Raised(d) THEN md ELSE cache_metadata(md, name, d)

\* GET /api/v1/dbs/{name}?refresh= and POST /api/v1/dbs/{name}/refresh
\* (force_refresh = TRUE): fetch_metadata.  The pool comes from
\* connection_factory.get_connection_pool, which creates it on the first
\* call for the name; Extracted[u] are the outcomes the extraction may have
\* on a pool connected to the url u.
FetchMetadata(name, force_refresh, Extracted) ==
  LET call == [fn |-> "fetch_metadata", n |-> op.n + 1, name |-> name,
               force_refresh |-> force_refresh, at |-> now,
               before |-> first_row(metadata, name)]
  IN  /\ Running /\ Serial /\ op.n < MaxOps
      /\ IF name \notin DOMAIN connections
         THEN /\ op' = call @@ [status |-> 404, extracted |-> FALSE]
              /\ UNCHANGED <<pools, connection_pools, metadata, next_meta_id>>
         ELSE IF fetch_uses_cache(name, force_refresh)
         THEN /\ op' = call @@ [status |-> 200, extracted |-> FALSE,
                        result |-> json_loads(get_cached_metadata(metadata, name)[1].metadata_json)]
              /\ UNCHANGED <<pools, connection_pools, metadata, next_meta_id>>
         ELSE LET conn == connections[name]
                  cp == connection_pools[conn.db_type]
                  pool_url == IF name \in DOMAIN cp THEN pools[cp[name]].url ELSE conn.url
              IN  IF name \notin DOMAIN cp /\ ~Reachable(conn.url)
                  THEN /\ op' = call @@ [status |-> 500, extracted |-> FALSE,
                                         error |-> "connection refused"]
                       /\ UNCHANGED <<pools, connection_pools, metadata, next_meta_id>>
                  ELSE \E d \in Extracted[pool_url] :
                         /\ pools' = IF name \in DOMAIN cp THEN pools
                                     ELSE create_pool(conn.url, conn.db_type)
                         /\ connection_pools' =
                              IF name \in DOMAIN cp THEN connection_pools
                              ELSE [connection_pools EXCEPT ![conn.db_type] = cp @@ (name :> NewPoolId)]
                         /\ metadata' = metadata_after_fetch(metadata, name, d)
                         /\ next_meta_id' = IF Raised(d) \/ first_row(metadata, name) # Nil
                                            THEN next_meta_id ELSE next_meta_id + 1
                         /\ op' = IF Raised(d)
                                  THEN call @@ [status |-> 500, extracted |-> FALSE,
                                                error |-> d.raises,
                                                pool |-> connection_pools'[conn.db_type][name]]
                                  ELSE call @@ [status |-> 200, extracted |-> TRUE, result |-> d,
                                                pool |-> connection_pools'[conn.db_type][name]]
      /\ UNCHANGED <<connections, history, next_id, trimmed, now, instances, adapters, sent,
                     tokens, req, runs, vsql, vtype, vcap, vres, proc>>

\* main.py shutdown_event: close_all_connection_pools of db_connection.py
\* pops and closes every pool of its dictionary.
Shutdown ==
  LET pg == connection_pools["postgresql"]
  IN  /\ Running /\ Serial
      /\ pools' = [p \in DOMAIN pools |->
                     IF \E n \in DOMAIN pg : pg[n] = p
                     THEN [pools[p] EXCEPT !.open = FALSE] ELSE pools[p]]
      /\ connection_pools' = [connection_pools EXCEPT !["postgresql"] = <<>>]
      /\ op' = [fn |-> "shutdown", n |-> op.n]
      /\ UNCHANGED <<connections, history, next_id, trimmed, now, instances, adapters, sent,
                     tokens, req, runs, vsql, vtype, vcap, vres, metadata, next_meta_id, proc>>

\* "select * from users"
ValidQuery == Text(<<Sel(Nil, FALSE)>>, Dialects)

InitConn == Init /\ history = {}

NextConn ==
  \/ \E r \in Req, name \in Names : Running /\ ApiQuery(r, name, ValidQuery, {FALSE})
  \/ \E r \in Req : GetPool(r, {FALSE})
  \/ \E r \in Req : FetchReturns(r, 0, {FALSE})
  \/ \E name \in {"A"}, url \in Urls, given \in {None, "postgresql"} : PutDatabase(name, url, given)
  \/ \E name \in Names : DeleteDatabase(name)
  \/ \E name \in Names, force_refresh \in BOOLEAN : FetchMetadata(name, force_refresh, Always({SchemaV1}))
  \/ Shutdown

SpecConn == InitConn /\ [][NextConn]_vars

(***************************************************************************)
(* The metadata cache over time                                            *)
(***************************************************************************)
\* The instants at which something happens: the start, one second later,
\* 23 h 59 min, 24 h, 24 h + 1 s and 25 h after the start.
Instants == {T0 + e : e \in {0, 1, 86340, 86400, 86401, 90000}}

AdvanceTo(t) ==
  /\ Running
  /\ t > now
  /\ now' = t
  /\ UNCHANGED <<connections, history, next_id, trimmed, instances, adapters, sent, tokens,
                 req, runs, vsql, vtype, vcap, vres>>
  /\ UNCHANGED xvars

\* A call of cache_metadata on its own.
CallCacheMetadata(name, d) ==
  /\ op.n < MaxOps
  /\ metadata' = cache_metadata(metadata, name, d)
  /\ next_meta_id' = IF first_row(metadata, name) = Nil THEN next_meta_id + 1 ELSE next_meta_id
  /\ op' = [fn |-> "cache_metadata", n |-> op.n + 1, name |-> name, at |-> now,
            before |-> first_row(metadata, name), payload |-> d,
            result |-> first_row(metadata', name)]
  /\ UNCHANGED <<connections, history, next_id, trimmed, now, instances, adapters, sent,
                 tokens, req, runs, vsql, vtype, vcap, vres, pools, connection_pools, proc>>

\* A call of get_cached_metadata on its own.
CallGetCachedMetadata(name) ==
  /\ op.n < MaxOps
  /\ op' = [fn |-> "get_cached_metadata", n |-> op.n + 1, name |-> name, at |-> now,
            before |-> first_row(metadata, name),
            result |-> get_cached_metadata(metadata, name)]
  /\ UNCHANGED <<connections, history, next_id, trimmed, now, instances, adapters, sent,
                 tokens, req, runs, vsql, vtype, vcap, vres,
                 pools, connection_pools, metadata, next_meta_id, proc>>

NextMeta ==
  \/ \E name \in Names, force_refresh \in BOOLEAN : FetchMetadata(name, force_refresh, Always(Payloads))
  \/ \E name \in {"A", "B"}, d \in Payloads : CallCacheMetadata(name, d)
  \/ \E name \in Names : CallGetCachedMetadata(name)
  \/ \E t \in Instants : AdvanceTo(t)

SpecMeta == InitConn /\ [][NextMeta]_vars

(***************************************************************************)
(* adapters/postgresql.py, adapters/mysql.py, db_connection.py,            *)
(* mysql_connection.py: concurrent callers of get_connection_pool          *)
(***************************************************************************)
MaxProcs == 2

Procs == 1..MaxProcs

IdleProc == [pc |-> "idle", target |-> None, pool |-> Nil]

\* The pool a holder has: the _pool of an adapter, or the entry of a name in
\* the dictionary of a connection module.
PoolOf(target) ==
  IF target[1] = "adapter" THEN adapters[target[2]].pool
  ELSE IF target[3] \in DOMAIN connection_pools[target[2]]
       THEN Some(connection_pools[target[2]][target[3]])
       ELSE Nil

\* get_connection_pool up to its await: the test for an existing pool.
get_connection_pool(p, target, pool) ==
  proc' = [proc EXCEPT ![p] =
             IF pool = Nil THEN [pc |-> "create_pool", target |-> target, pool |-> Nil]
             ELSE [pc |-> "done", target |-> target, pool |-> pool]]

\* A caller fetches the adapter of a connection from the registry and calls
\* its get_connection_pool.
CallAdapterPool(p, name) ==
  LET conn == connections[name]
      key == cache_key(conn.db_type, name)
  IN  /\ proc[p].pc = "idle"
      /\ instances' = get_adapter_instances(conn.db_type, name)
      /\ adapters' = get_adapter_adapters(conn.db_type, name, conn.url)
      /\ get_connection_pool(p, <<"adapter", instances'[key]>>, adapters'[instances'[key]].pool)
      /\ UNCHANGED <<connections, history, next_id, trimmed, now, sent, tokens, req, runs,
                     vsql, vtype, vcap, vres, pools, connection_pools, metadata, next_meta_id, op>>

\* A caller calls connection_factory.get_connection_pool for a connection.
CallFactoryPool(p, name) ==
  LET conn == connections[name]
      target == <<"factory", conn.db_type, name>>
  IN  /\ proc[p].pc = "idle"
      /\ get_connection_pool(p, target, PoolOf(target))
      /\ UNCHANGED <<connections, history, next_id, trimmed, now, instances, adapters, sent,
                     tokens, req, runs, vsql, vtype, vcap, vres,
                     pools, connection_pools, metadata, next_meta_id, op>>

\* create_pool returns to a caller: the pool is stored in the holder, over
\* whatever the holder has by now, and returned.
PoolCreated(p) ==
  LET target == proc[p].target
  IN  /\ proc[p].pc = "create_pool"
      /\ IF target[1] = "adapter"
         THEN /\ pools' = create_pool(adapters[target[2]].url, adapters[target[2]].db_type)
              /\ adapters' = [adapters EXCEPT ![target[2]].pool = Some(NewPoolId)]
              /\ UNCHANGED connection_pools
         ELSE /\ pools' = create_pool(connections[target[3]].url, target[2])
              /\ connection_pools' = [connection_pools EXCEPT ![target[2]] =
                                        [n \in DOMAIN @ \cup {target[3]} |->
                                           IF n = target[3] THEN NewPoolId ELSE @[n]]]
              /\ UNCHANGED adapters
      /\ proc' = [proc EXCEPT ![p] = [pc |-> "done", target |-> target, pool |-> Some(NewPoolId)]]
      /\ UNCHANGED <<connections, history, next_id, trimmed, now, instances, sent, tokens,
                     req, runs, vsql, vtype, vcap, vres, metadata, next_meta_id, op>>

\* The connections A and B registered, nothing else yet.
InitBase ==
  /\ connections = ("A" :> [db_type |-> "postgresql", url |-> "postgresql://a"]) @@
                   ("B" :> [db_type |-> "mysql", url |-> "mysql://b"])
  /\ history = {} /\ next_id = 1 /\ trimmed = {} /\ now = T0
  /\ instances = <<>> /\ adapters = <<>> /\ sent = {} /\ tokens = {}
  /\ req = [r \in Req |-> IdleReq] /\ runs = 0
  /\ InitValidatorIdle

InitPool ==
  /\ InitBase
  /\ pools = <<>>
  /\ connection_pools = [t \in DatabaseType |-> <<>>]
  /\ metadata = {} /\ next_meta_id = 1 /\ op = NoOp
  /\ proc = [p \in Procs |-> IdleProc]

NextPool ==
  \/ \E p \in Procs, name \in {"A", "B"} : CallAdapterPool(p, name)
  \/ \E p \in Procs, name \in {"A", "B"} : CallFactoryPool(p, name)
  \/ \E p \in Procs : PoolCreated(p)

SpecPool == InitPool /\ [][NextPool]_vars

(***************************************************************************)
(* adapters/postgresql.py, adapters/mysql.py, services/metadata.py,        *)
(* services/mysql_metadata.py: the extraction loop                         *)
(***************************************************************************)
MaxTables == 2

\* What the COUNT(*) query of a table does: it raises, it returns no row,
\* or it returns a count.
CountOutcomes ==
  [raises : {TRUE}, value : {Nil}] \cup [raises : {FALSE}, value : {Nil, Some(0), Some(7)}]

\* A row of the catalog query, with what the queries about it will do.
CatalogRows == [type : {"table", "view"}, columns_fail : BOOLEAN, count : CountOutcomes]

Catalogs == UNION {[1..n -> CatalogRows] : n \in 0..MaxTables}

\* The row count without the try / except around the query.
get_row_count_unguarded(row) ==
  [raised |-> row.count.raises, value |-> row.count.value]

\* _get_row_count: None when the query raises or returns no row.
get_row_count(row) ==
  [raised |-> FALSE, value |-> IF row.count.raises THEN Nil ELSE row.count.value]

\* The dictionary built for a table or a view; the tables and views are
\* named by their position in the catalog.
table_meta(i, row, row_count) ==
  LET meta == [name |-> i, type |-> row.type, schemaName |-> "public", columns |-> <<"id">>]
  IN  IF row_count # Nil THEN meta @@ [rowCount |-> row_count[1]] ELSE meta

\* One iteration of the loop over the catalog rows.
ExtractRow ==
  /\ op.fn = "extract_metadata" /\ op.pc = "loop" /\ op.i <= Len(op.catalog)
  /\ LET row == op.catalog[op.i]
         rc == IF row.type = "table" THEN get_row_count(row)
               ELSE [raised |-> FALSE, value |-> Nil]
     IN  IF row.columns_fail \/ rc.raised
         THEN op' = [op EXCEPT !.pc = "raised"]
         ELSE op' = [op EXCEPT !.i = @ + 1,
                        !.tables = IF row.type = "table"
                                   THEN Append(@, table_meta(op.i, row, rc.value)) ELSE @,
                        !.views = IF row.type = "table"
                                  THEN @ ELSE Append(@, table_meta(op.i, row, rc.value))]
  /\ UNCHANGED <<connections, history, next_id, trimmed, now, instances, adapters, sent,
                 tokens, req, runs, vsql, vtype, vcap, vres,
                 pools, connection_pools, metadata, next_meta_id, proc>>

\* The end of the loop: MetadataResult(tables, views) is returned.
ExtractReturn ==
  /\ op.fn = "extract_metadata" /\ op.pc = "loop" /\ op.i > Len(op.catalog)
  /\ op' = [op EXCEPT !.pc = "returned"]
  /\ UNCHANGED <<connections, history, next_id, trimmed, now, instances, adapters, sent,
                 tokens, req, runs, vsql, vtype, vcap, vres,
                 pools, connection_pools, metadata, next_meta_id, proc>>

InitExtract ==
  /\ InitBase
  /\ pools = <<>>
  /\ connection_pools = [t \in DatabaseType |-> <<>>]
  /\ metadata = {} /\ next_meta_id = 1
  /\ proc = <<>>
  /\ \E c \in Catalogs :
       op = [fn |-> "extract_metadata", n |-> 0, catalog |-> c, i |-> 1, pc |-> "loop",
             tables |-> <<>>, views |-> <<>>]

NextExtract == ExtractRow \/ ExtractReturn

SpecExtract == InitExtract /\ [][NextExtract]_vars

(***************************************************************************)
(* api/v1/queries.py, export_service.py: the query endpoint issues export  *)
(* tokens, the export endpoint runs the SQL a token carries                *)
(***************************************************************************)
\* "select `id` from users": the backquoted identifier is MySQL's, the
\* postgres grammar rejects it.
MysqlOnlyQuery == Text(<<Sel(Nil, FALSE)>>, {"mysql"})

\* "select * from users", "select `id` from users", "delete from users"
ExportTexts == {ValidQuery, MysqlOnlyQuery, Text(<<Del>>, Dialects)}

\* An instant after the expiry of a token issued at the start.
AfterExpiry == T0 + MaxTime + ExportTokenExpiry + 1

NextExport ==
  \/ \E r \in Req, name \in Names, sql \in ExportTexts : ApiQuery(r, name, sql, {FALSE})
  \/ \E r \in Req, name \in Names, token \in tokens \cup {ForgedToken} : ApiExport(r, name, token, {FALSE})
  \/ \E r \in Req : GetPool(r, {FALSE})
  \/ \E r \in Req : FetchRaises(r, {FALSE})
  \/ \E r \in Req : FetchReturns(r, 2, {FALSE})
  \/ Serial /\ AdvanceTo(AfterExpiry)

SpecExport == InitConn /\ [][NextExport]_vars

(***************************************************************************)
(* registry.py, adapters/postgresql.py, adapters/mysql.py: the calls of    *)
(* the registry and of the pool of an adapter, one after the other         *)
(***************************************************************************)
MaxAdapters == 2
MaxPools == 2

\* What no call of the registry or of an adapter touches.
rvars == <<connections, history, next_id, trimmed, now, sent, tokens, req, runs,
           vsql, vtype, vcap, vres, connection_pools, metadata, next_meta_id>>

\* The (type, name) pairs the callers use, and the url of their config.
RegKeys == {<<"postgresql", "A">>, <<"mysql", "A">>, <<"mysql", "B">>}
ConfigUrl(db_type) == IF db_type = "postgresql" THEN "postgresql://a" ELSE "mysql://b"

\* The entry found by the name alone, whatever its type.
close_adapter_any_type(ins, ads, ps, db_type, name) ==
  LET found == {k \in DOMAIN ins : k[2] = name}
  IN  IF found # {}
      THEN LET key == CHOOSE k \in found : TRUE
           IN  [instances |-> Restrict(ins, DOMAIN ins \ {key}),
                adapters |-> close_pool_adapters(ads, ins[key]),
                pools |-> close_pool_pools(ads, ps, ins[key])]
      ELSE [instances |-> ins, adapters |-> ads, pools |-> ps]

\* close_adapter: the entry of the key is popped and its pool closed.
close_adapter(ins, ads, ps, db_type, name) ==
  LET key == cache_key(db_type, name)
  IN  IF key \in DOMAIN ins
      THEN [instances |-> Restrict(ins, DOMAIN ins \ {key}),
            adapters |-> close_pool_adapters(ads, ins[key]),
            pools |-> close_pool_pools(ads, ps, ins[key])]
      ELSE [instances |-> ins, adapters |-> ads, pools |-> ps]

\* close_all_adapters: close_connection_pool of every cached adapter, in the
\* order of the dictionary, then _instances.clear().
RECURSIVE close_each(_, _, _)
close_each(S, ads, ps) ==
  IF S = {} THEN [instances |-> <<>>, adapters |-> ads, pools |-> ps]
  ELSE LET a == CHOOSE x \in S : \A y \in S : x <= y
       IN  close_each(S \ {a}, close_pool_adapters(ads, a), close_pool_pools(ads, ps, a))

close_all_adapters(ins, ads, ps) == close_each({ins[k] : k \in DOMAIN ins}, ads, ps)

\* A pool is created on every call.
pool_is_none_unchecked(ads, a) == TRUE

\* get_connection_pool: `if self._pool is None'
pool_is_none(ads, a) == ads[a].pool = Nil

\* registry.get_adapter(db_type, config)
RegGetAdapter(db_type, name) ==
  LET key == cache_key(db_type, name)
  IN  /\ key \in DOMAIN instances \/ Cardinality(DOMAIN adapters) < MaxAdapters
      /\ instances' = get_adapter_instances(db_type, name)
      /\ adapters' = get_adapter_adapters(db_type, name, ConfigUrl(db_type))
      /\ op' = [fn |-> "get_adapter", n |-> 0, db_type |-> db_type, name |-> name,
                adapter |-> instances'[key]]
      /\ UNCHANGED <<pools, proc>>
      /\ UNCHANGED rvars

\* adapter.get_connection_pool() of an adapter a caller holds, cached or not
RegGetPool(a) ==
  /\ IF pool_is_none(adapters, a)
     THEN /\ Cardinality(DOMAIN pools) < MaxPools
          /\ pools' = create_pool(adapters[a].url, adapters[a].db_type)
          /\ adapters' = [adapters EXCEPT ![a].pool = Some(NewPoolId)]
          /\ op' = [fn |-> "get_connection_pool", n |-> 0, adapter |-> a,
                    created |-> TRUE, pool |-> NewPoolId]
     ELSE /\ op' = [fn |-> "get_connection_pool", n |-> 0, adapter |-> a,
                    created |-> FALSE, pool |-> adapters[a].pool[1]]
          /\ UNCHANGED <<pools, adapters>>
  /\ UNCHANGED <<instances, proc>>
  /\ UNCHANGED rvars

\* adapter.close_connection_pool()
RegClosePool(a) ==
  /\ pools' = close_pool_pools(adapters, pools, a)
  /\ adapters' = close_pool_adapters(adapters, a)
  /\ op' = [fn |-> "close_connection_pool", n |-> 0, adapter |-> a, had |-> adapters[a].pool]
  /\ UNCHANGED <<instances, proc>>
  /\ UNCHANGED rvars

\* registry.close_adapter(db_type, name)
RegCloseAdapter(db_type, name) ==
  LET after == close_adapter(instances, adapters, pools, db_type, name)
  IN  /\ instances' = after.instances
      /\ adapters' = after.adapters
      /\ pools' = after.pools
      /\ op' = [fn |-> "close_adapter", n |-> 0, db_type |-> db_type, name |-> name,
                found |-> cache_key(db_type, name) \in DOMAIN instances]
      /\ UNCHANGED proc
      /\ UNCHANGED rvars

\* registry.close_all_adapters()
RegCloseAll ==
  LET after == close_all_adapters(instances, adapters, pools)
  IN  /\ instances' = after.instances
      /\ adapters' = after.adapters
      /\ pools' = after.pools
      /\ op' = [fn |-> "close_all_adapters", n |-> 0, cached |-> Cardinality(DOMAIN instances)]
      /\ UNCHANGED proc
      /\ UNCHANGED rvars

InitRegistry == InitBase /\ InitIdle

NextRegistry ==
  \/ \E key \in RegKeys : RegGetAdapter(key[1], key[2])
  \/ \E a \in DOMAIN adapters : RegGetPool(a)
  \/ \E a \in DOMAIN adapters : RegClosePool(a)
  \/ \E key \in RegKeys : RegCloseAdapter(key[1], key[2])
  \/ RegCloseAll

SpecRegistry == InitRegistry /\ [][NextRegistry]_vars

(***************************************************************************)
(* registry.py, adapters: close_adapter and close_all_adapters interleaved *)
(* with callers that fetch an adapter and its pool.  Each caller runs up   *)
(* to its next await in one step.                                          *)
(***************************************************************************)
\* The pool an adapter holds starts to close: Pool.close() refuses every
\* later acquire from its first instruction on.
pool_close(ps, ads, a) == [ps EXCEPT ![ads[a].pool[1]].open = FALSE]

\* The cached adapters in the order of the dictionary: every key is
\* inserted with a fresh, larger, adapter.
cached_list(ins) ==
  LET S == {ins[k] : k \in DOMAIN ins}
      F[T \in SUBSET S] ==
        IF T = {} THEN <<>>
        ELSE LET a == CHOOSE x \in T : \A y \in T : x <= y
             IN  <<a>> \o F[T \ {a}]
  IN  F[S]

\* The loop of close_all_adapters runs on without suspending over the
\* adapters that hold no pool.
RECURSIVE first_with_pool(_, _)
first_with_pool(todo, ads) ==
  IF todo = <<>> \/ ads[Head(todo)].pool # Nil THEN todo
  ELSE first_with_pool(Tail(todo), ads)

\* close_adapter up to its await: the entry is popped, and the pool of the
\* adapter, if it holds one, starts to close.
CallCloseAdapter(p, name) ==
  LET key == cache_key(connections[name].db_type, name)
  IN  /\ proc[p].pc = "idle"
      /\ IF key \notin DOMAIN instances
         THEN /\ proc' = [proc EXCEPT ![p] = [pc |-> "done", target |-> <<"close", name>>, pool |-> Nil]]
              /\ UNCHANGED <<instances, pools>>
         ELSE LET a == instances[key]
              IN  /\ instances' = Restrict(instances, DOMAIN instances \ {key})
                  /\ IF adapters[a].pool = Nil
                     THEN /\ proc' = [proc EXCEPT ![p] = [pc |-> "done", target |-> <<"close", name>>, pool |-> Nil]]
                          /\ UNCHANGED pools
                     ELSE /\ pools' = pool_close(pools, adapters, a)
                          /\ proc' = [proc EXCEPT ![p] = [pc |-> "pool_close", target |-> <<"adapter", a>>,
                                                          pool |-> adapters[a].pool]]
      /\ UNCHANGED <<adapters, op>>
      /\ UNCHANGED rvars

\* Pool.close() returns to close_connection_pool: self._pool = None
PoolClosed(p) ==
  /\ proc[p].pc = "pool_close"
  /\ adapters' = [adapters EXCEPT ![proc[p].target[2]].pool = Nil]
  /\ proc' = [proc EXCEPT ![p].pc = "done"]
  /\ UNCHANGED <<instances, pools, op>>
  /\ UNCHANGED rvars

\* The loop of close_all_adapters from the adapters `todo' on, up to the
\* next await or, past the loop, _instances.clear().
close_all_from(p, todo, ads) ==
  LET rest == first_with_pool(todo, ads)
  IN  IF rest = <<>>
      THEN /\ instances' = <<>>
           /\ proc' = [proc EXCEPT ![p] = [pc |-> "done", target |-> <<"close_all", rest>>, pool |-> Nil]]
           /\ UNCHANGED pools
      ELSE /\ pools' = pool_close(pools, ads, Head(rest))
           /\ proc' = [proc EXCEPT ![p] = [pc |-> "close_all", target |-> <<"close_all", rest>>,
                                           pool |-> ads[Head(rest)].pool]]
           /\ UNCHANGED instances

\* close_all_adapters up to its first await
CallCloseAll(p) ==
  /\ proc[p].pc = "idle"
  /\ close_all_from(p, cached_list(instances), adapters)
  /\ UNCHANGED <<adapters, op>>
  /\ UNCHANGED rvars

\* Pool.close() returns inside the loop of close_all_adapters
CloseAllResume(p) ==
  LET todo == proc[p].target[2]
      ads == [adapters EXCEPT ![Head(todo)].pool = Nil]
  IN  /\ proc[p].pc = "close_all"
      /\ adapters' = ads
      /\ close_all_from(p, Tail(todo), ads)
      /\ UNCHANGED op
      /\ UNCHANGED rvars

\* The registry when the callers start: empty, or holding the adapter of A
\* with its pool open, as a finished query of A leaves it.
InitRace ==
  /\ InitBase
  /\ connection_pools = [t \in DatabaseType |-> <<>>]
  /\ metadata = {} /\ next_meta_id = 1 /\ op = NoOp
  /\ proc = [p \in Procs |-> IdleProc]
  /\ \E warm \in BOOLEAN :
       IF warm
       THEN /\ instances = (cache_key("postgresql", "A") :> 1)
            /\ adapters = <<[name |-> "A", url |-> "postgresql://a", db_type |-> "postgresql",
                             pool |-> Some(1)]>>
            /\ pools = <<[url |-> "postgresql://a", db_type |-> "postgresql", open |-> TRUE]>>
       ELSE instances = <<>> /\ adapters = <<>> /\ pools = <<>>

NextRace ==
  \/ \E p \in Procs, name \in {"A", "B"} : CallAdapterPool(p, name)
  \/ \E p \in Procs : PoolCreated(p)
  \/ \E p \in Procs, name \in {"A", "B"} : CallCloseAdapter(p, name)
  \/ \E p \in Procs : PoolClosed(p)
  \/ \E p \in Procs : CallCloseAll(p)
  \/ \E p \in Procs : CloseAllResume(p)

SpecRace == InitRace /\ [][NextRace]_vars

(***************************************************************************)
(* query.py: save_query_history calls of several workers on the one        *)
(* queryhistory table, interleaved statement by statement: the insert and  *)
(* its commit, the SELECT of cleanup_old_queries, the deletes and their    *)
(* commit                                                                  *)
(***************************************************************************)
\* HistoryKeep rows of earlier queries of a name, three per second.
TiedRows(name) ==
  {[q EXCEPT !.executed_at = (q.id + 2) \div 3] : q \in InitRows(name, HistoryKeep, 0)}

\* The place of a row before another in the result of the SELECT of
\* cleanup_old_queries: executed_at DESC, and rows of equal executed_at in
\* the order the plan of the statement reads them, by ascending rowid (a
\* sort of the table scan) or by descending rowid (the index on executed_at
\* read backwards).  Every SELECT of the statement runs the same plan.
ComesBefore(q1, q2, ties) ==
  \/ q1.executed_at > q2.executed_at
  \/ /\ q1.executed_at = q2.executed_at
     /\ IF ties = "asc" THEN q1.id < q2.id ELSE q1.id > q2.id

\* all_queries[50:]
queries_to_delete(h, name, ties) ==
  {q \in RowsOf(h, name) :
     Cardinality({o \in RowsOf(h, name) : ComesBefore(o, q, ties)}) >= HistoryKeep}

\* A DELETE of as many of the oldest rows as were selected, whichever they
\* are by now.
delete_rows_by_count(h, name, selected, ties) ==
  {q \in RowsOf(h, name) :
     Cardinality({o \in RowsOf(h, name) : ComesBefore(q, o, ties)}) < Cardinality(selected)}

\* session.delete(query) for each selected row: DELETE ... WHERE id = ?,
\* which matches nothing for a row another worker has deleted by now.
delete_rows(h, name, selected, ties) == selected \cap h

\* session.add(history); session.commit()
SaveInsert(p, name) ==
  /\ proc[p].pc = "idle"
  /\ history' = history \cup {QueryHistory(next_id, name, ValidQuery, Some(0), Some(0), TRUE, None)}
  /\ next_id' = next_id + 1
  /\ proc' = [proc EXCEPT ![p] = [pc |-> "select", target |-> <<"history", name>>, pool |-> Nil]]
  /\ UNCHANGED <<connections, trimmed, now, instances, adapters, sent, tokens, req, runs,
                 vsql, vtype, vcap, vres, pools, connection_pools, metadata, next_meta_id, op>>

\* cleanup_old_queries: the SELECT, and the rows after the first HistoryKeep
\* of its result
SaveSelect(p) ==
  /\ proc[p].pc = "select"
  /\ proc' = [proc EXCEPT ![p] =
                [pc |-> "delete", target |-> proc[p].target, pool |-> Nil,
                 selected |-> queries_to_delete(history, proc[p].target[2], op.ties)]]
  /\ UNCHANGED <<connections, history, next_id, trimmed, now, instances, adapters, sent, tokens,
                 req, runs, vsql, vtype, vcap, vres, pools, connection_pools, metadata,
                 next_meta_id, op>>

\* cleanup_old_queries: the deletes and the commit
SaveDelete(p) ==
  LET deleted == delete_rows(history, proc[p].target[2], proc[p].selected, op.ties)
  IN  /\ proc[p].pc = "delete"
      /\ history' = history \ deleted
      /\ trimmed' = trimmed \cup deleted
      /\ proc' = [proc EXCEPT ![p].pc = "done"]
      /\ UNCHANGED <<connections, next_id, now, instances, adapters, sent, tokens, req, runs,
                     vsql, vtype, vcap, vres, pools, connection_pools, metadata, next_meta_id, op>>

InitTrim ==
  /\ connections = ("A" :> [db_type |-> "postgresql", url |-> "postgresql://a"]) @@
                   ("B" :> [db_type |-> "mysql", url |-> "mysql://b"])
  /\ \E rows \in {{}, InitRows("A", HistoryKeep, 0), TiedRows("A")} : history = rows
  /\ next_id = HistoryKeep + 1 /\ trimmed = {} /\ now = T0
  /\ instances = <<>> /\ adapters = <<>> /\ sent = {} /\ tokens = {}
  /\ req = [r \in Req |-> IdleReq] /\ runs = 0
  /\ InitValidatorIdle
  /\ pools = <<>>
  /\ connection_pools = [t \in DatabaseType |-> <<>>]
  /\ metadata = {} /\ next_meta_id = 1
  /\ \E ties \in {"asc", "desc"} : op = [fn |-> "select_plan", n |-> 0, ties |-> ties]
  /\ proc = [p \in Procs |-> IdleProc]

NextTrim ==
  \/ \E p \in Procs, name \in {"A", "B"} : SaveInsert(p, name)
  \/ \E p \in Procs : SaveSelect(p)
  \/ \E p \in Procs : SaveDelete(p)

SpecTrim == InitTrim /\ [][NextTrim]_vars

(***************************************************************************)
(* api/v1/databases.py, api/v1/queries.py, services/metadata.py: the       *)
(* requests that are refused, and the metadata of a connection whose url   *)
(* changes                                                                 *)
(***************************************************************************)
\* The schema of the database at a url.
SchemaAt(url) == IF url = "postgresql://a2" THEN SchemaV2 ELSE SchemaV1

\* The extraction on a pool connected to a url returns the schema of the
\* database at that url, or raises.
ExtractOutcomes == [u \in Urls |-> {SchemaAt(u), ExtractionRaises}]

\* GET /api/v1/dbs/{name}/history: reads the history of a stored connection
GetHistory(name) ==
  /\ Running /\ Serial /\ op.n < MaxOps
  /\ op' = [fn |-> "history", n |-> op.n + 1, name |-> name,
            status |-> IF name \in DOMAIN connections THEN 200 ELSE 404]
  /\ UNCHANGED <<connections, history, next_id, trimmed, now, instances, adapters, sent,
                 tokens, req, runs, vsql, vtype, vcap, vres,
                 pools, connection_pools, metadata, next_meta_id, proc>>

\* The store when the requests start: nothing cached, or the metadata of A
\* cached, as a GET /api/v1/dbs/A leaves it.
InitCatalog ==
  /\ InitBase
  /\ op = NoOp /\ proc = <<>>
  /\ \E warm \in BOOLEAN :
       IF warm
       THEN /\ pools = <<[url |-> "postgresql://a", db_type |-> "postgresql", open |-> TRUE]>>
            /\ connection_pools = [t \in DatabaseType |->
                                     IF t = "postgresql" THEN ("A" :> 1) ELSE <<>>]
            /\ metadata = {[DatabaseMetadata(1, "A", SchemaAt("postgresql://a"))
                               EXCEPT !.fetched_at = T0 - 1]}
            /\ next_meta_id = 2
       ELSE /\ pools = <<>>
            /\ connection_pools = [t \in DatabaseType |-> <<>>]
            /\ metadata = {}
            /\ next_meta_id = 1

NextCatalog ==
  \/ \E r \in Req : ApiQuery(r, "ghost", ValidQuery, {FALSE})
  \/ \E name \in Names : GetHistory(name)
  \/ \E name \in {"A"} \cup InvalidNames, url \in Urls, given \in {None, "postgresql", "oracle"} :
       PutDatabase(name, url, given)
  \/ \E name \in Names : DeleteDatabase(name)
  \/ \E name \in Names, force_refresh \in BOOLEAN : FetchMetadata(name, force_refresh, ExtractOutcomes)

SpecCatalog == InitCatalog /\ [][NextCatalog]_vars

(***************************************************************************)
(* The validator functions on their own                                    *)
(***************************************************************************)
NoResult == [fn |-> None]

InitValidator ==
  /\ vsql \in SqlTexts
  /\ vtype \in DatabaseType
  /\ vcap \in Caps
  /\ vres = NoResult
  /\ connections = <<>> /\ history = {} /\ next_id = 1 /\ trimmed = {} /\ now = 0
  /\ instances = <<>> /\ adapters = <<>> /\ sent = {} /\ tokens = {}
  /\ req = [r \in Req |-> IdleReq] /\ runs = 0
  /\ InitIdle

CallValidateSql ==
  /\ vres = NoResult
  /\ vres' = [fn |-> "validate_sql", out |-> validate_sql(vsql, vtype)]
  /\ UNCHANGED <<vsql, vtype, vcap>>
  /\ UNCHANGED svars

CallAddLimit ==
  /\ vres = NoResult
  /\ vres' = [fn |-> "add_limit_if_missing",
              out |-> add_limit_if_missing(vsql, vcap, vtype),
              again |-> add_limit_if_missing(add_limit_if_missing(vsql, vcap, vtype), vcap, vtype)]
  /\ UNCHANGED <<vsql, vtype, vcap>>
  /\ UNCHANGED svars

CallValidateAndTransform ==
  /\ vres = NoResult
  /\ vres' = [fn |-> "validate_and_transform_sql",
              out |-> validate_and_transform_sql(vsql, vcap, vtype)]
  /\ UNCHANGED <<vsql, vtype, vcap>>
  /\ UNCHANGED svars

NextValidator == CallValidateSql \/ CallAddLimit \/ CallValidateAndTransform

SpecValidator == InitValidator /\ [][NextValidator]_vars

(***************************************************************************)
(* Properties of the validator functions (checked under SpecValidator)     *)
(***************************************************************************)
\* The string is one the dialect of vtype parses, and its root is `first'.
Parses(sql, db_type) == dialect_of(db_type) \in sql.dialects /\ sql.stmts # <<>>

RootKind(sql) == Head(sql.stmts).kind

SingleSelect(sql, db_type) ==
  Parses(sql, db_type) /\ Len(sql.stmts) = 1 /\ RootKind(sql) = "select"

\* C4: for every SQL string whose parsed root statement is not a SELECT, and
\* for both dialects, validate_sql returns not-ok with the message "Only
\* SELECT statements are allowed" and validate_and_transform_sql raises
\* SqlValidationError.
C4_NonSelectRejected ==
  (Parses(vsql, vtype) /\ RootKind(vsql) # "select") =>
     /\ vres.fn = "validate_sql" =>
           vres.out = [valid |-> FALSE, error |-> "Only SELECT statements are allowed"]
     /\ vres.fn = "validate_and_transform_sql" =>
           vres.out.raised /\ vres.out.error = "Only SELECT statements are allowed"

C4_Witness ==
  /\ vres.fn = "validate_and_transform_sql"
  /\ Parses(vsql, vtype) /\ RootKind(vsql) = "create" /\ vtype = "mysql"
  /\ vres.out.raised

\* C5: the validator accepts only a single SELECT statement: a string of
\* several statements is rejected whatever its first statement is, and no
\* text of several statements is returned by validate_and_transform_sql.
C5_MultiStatementRejected ==
  /\ (vres.fn = "validate_sql" /\ Len(vsql.stmts) > 1) => ~vres.out.valid
  /\ vres.fn = "validate_and_transform_sql" =>
        /\ Len(vsql.stmts) > 1 => vres.out.raised
        /\ ~vres.out.raised => Len(vres.out.sql.stmts) = 1

\* C6: for a SELECT statement without any LIMIT clause and a cap N,
\* add_limit_if_missing returns one statement with exactly one LIMIT clause,
\* on the root and with bound N, the rest of the statement (its root class,
\* its OFFSET) as it was.
C6_LimitInjected ==
  (vres.fn = "add_limit_if_missing" /\ SingleSelect(vsql, vtype) /\ CountLimits(vsql) = 0) =>
     /\ Len(vres.out.stmts) = 1
     /\ CountLimits(vres.out) = 1
     /\ Head(vres.out.stmts) = [Head(vsql.stmts) EXCEPT !.limit = Some(vcap)]
     /\ dialect_of(vtype) \in vres.out.dialects

C6_Witness ==
  /\ vres.fn = "add_limit_if_missing"
  /\ SingleSelect(vsql, vtype) /\ CountLimits(vsql) = 0
  /\ Head(vsql.stmts).offset /\ ~vsql.canon /\ vcap = 100
  /\ Head(vres.out.stmts).limit = Some(100) /\ Head(vres.out.stmts).offset

\* C7: a SELECT statement that already contains a LIMIT clause is returned
\* unchanged for every cap, also when its LIMIT is larger than the cap; and
\* add_limit_if_missing applied to its own output returns that output.
C7_ExistingLimitKept ==
  vres.fn = "add_limit_if_missing" =>
     /\ (SingleSelect(vsql, vtype) /\ CountLimits(vsql) >= 1) => vres.out = vsql
     /\ vres.again = vres.out

C7_Witness ==
  /\ vres.fn = "add_limit_if_missing"
  /\ SingleSelect(vsql, vtype) /\ ~vsql.canon
  /\ Head(vsql.stmts).limit = Some(5000) /\ vcap = DefaultLimit
  /\ vres.out = vsql /\ vres.again = vsql

(***************************************************************************)
(* Properties of the orchestrator and of the query history                 *)
(***************************************************************************)
\* The request of slot r has called execute_query_with_service and that
\* call has ended.
Ran(r) == req[r].pc = "done" /\ req[r].db_type # None

Rejected(r) == Ran(r) /\ ~validate_sql(req[r].sql, req[r].db_type).valid

\* The execution on the adapter raised (pool creation or fetch).
ExecFailed(r) == Ran(r) /\ req[r].adapter # Nil /\ req[r].status # 200

Succeeded(r) == Ran(r) /\ req[r].status = 200

\* The i-th history row the request of slot r has inserted.
Entry(r, i) == CHOOSE q \in history \cup trimmed : q.id = req[r].written[i]

\* C1: every call of execute_query_with_service, whatever its outcome and
\* whichever step raises, inserts exactly one history row.
C1_ExactlyOneAuditEntry ==
  \A r \in Req : Ran(r) => Len(req[r].written) = 1

\* C2: when the validator rejects the SQL, no adapter is fetched and nothing
\* is executed, one history row is written, marked failed, with the
\* validator's message and without duration and row count, and the
\* SqlValidationError reaches the caller.
C2_ValidationFailure ==
  \A r \in Req : Rejected(r) =>
     /\ req[r].adapter = Nil /\ ~req[r].executed
     /\ \A m \in sent : m.sql # req[r].sql
     /\ Len(req[r].written) = 1
     /\ Entry(r, 1).success = FALSE
     /\ Entry(r, 1).error_message = validate_sql(req[r].sql, req[r].db_type).error
     /\ Entry(r, 1).execution_time_ms = Nil
     /\ Entry(r, 1).row_count = Nil
     /\ Entry(r, 1).database_name = req[r].name
     /\ req[r].raised = "SqlValidationError"
     /\ req[r].error = validate_sql(req[r].sql, req[r].db_type).error

C2_Witness ==
  \E r \in Req :
     /\ Rejected(r) /\ RootKind(req[r].sql) = "delete"
     /\ Entry(r, 1).error_message = "Only SELECT statements are allowed"
     /\ req[r].raised = "SqlValidationError"

\* C3: whenever a statement is passed to an adapter, by the query endpoint
\* or by the export endpoint, it is the output of validate_and_transform_sql
\* for the SQL of that request, which the validator accepted; a request
\* whose SQL the validator rejects passes nothing to an adapter.
C3_Step ==
  /\ \A m \in sent' \ sent :
        \E r \in Req :
           /\ req[r].pc = "fetch" /\ req'[r].executed
           /\ validate_sql(req[r].sql, req[r].db_type).valid
           /\ ~validate_and_transform_sql(req[r].sql, DefaultLimit, req[r].db_type).raised
           /\ m.sql = validate_and_transform_sql(req[r].sql, DefaultLimit, req[r].db_type).sql
  /\ \A r \in Req :
        (req'[r].db_type # None /\ ~validate_sql(req'[r].sql, req'[r].db_type).valid) =>
           /\ req'[r].pc = "done" /\ ~req'[r].executed
           /\ req'[r] # req[r] => sent' = sent

C3_OnlyValidatedSqlExecuted == [][C3_Step]_vars

C3_Witness ==
  \E r \in Req :
     /\ Succeeded(r) /\ req[r].endpoint = "export"
     /\ CountLimits(req[r].sql) = 0
     /\ \E m \in sent : m.name = req[r].name /\ m.sql = req[r].validated
                          /\ Head(m.sql.stmts).limit = Some(DefaultLimit)

\* C8: after every save_query_history for a connection name, the name has
\* at most HistoryKeep rows and they are the most recent by executed_at of
\* those inserted for it; the trim for a name leaves the rows of every other
\* name as they are.
HistoryNames == {"A", "B"}

C8_Step ==
  /\ \A n \in HistoryNames :
        /\ Cardinality(RowsOf(history', n)) <= HistoryKeep
        /\ RowsOf(trimmed', n) # {} => Cardinality(RowsOf(history', n)) = HistoryKeep
        /\ \A q \in RowsOf(history', n), d \in RowsOf(trimmed', n) :
              q.executed_at >= d.executed_at
  /\ \A r \in Req :
        req'[r].written # req[r].written =>
           \A n \in HistoryNames \ {req'[r].name} :
              RowsOf(history', n) = RowsOf(history, n)
  /\ history \cup trimmed \subseteq history' \cup trimmed'

C8_Retention == [][C8_Step]_vars

C8_Witness ==
  /\ Cardinality(RowsOf(history, "A")) = HistoryKeep
  /\ Cardinality(RowsOf(trimmed, "A")) = 2
  /\ RowsOf(history, "B") = {}
  /\ \E q \in RowsOf(history, "A") : q.id > HistoryKeep + 1

\* C9: when the execution on the adapter raises, the history row written is
\* marked failed, carries the exception's message, the duration up to the
\* failure and no row count, and the caller receives the original exception.
C9_ExecutionFailure ==
  \A r \in Req : (ExecFailed(r) /\ Len(req[r].written) = 1) =>
     /\ Entry(r, 1).success = FALSE
     /\ Entry(r, 1).error_message = req[r].error
     /\ Entry(r, 1).row_count = Nil
     /\ Entry(r, 1).execution_time_ms # Nil
     /\ req[r].raised = "Exception"
     /\ req[r].error \in ExecErrors \cup PoolErrors

\* C10: when the execution succeeds, the history row written is marked
\* success, with the number of rows returned, a duration and no error text,
\* and its SQL text and the sql of the returned QueryResult are the
\* rewritten SQL that was sent to the adapter.
C10_Success ==
  \A r \in Req : (Succeeded(r) /\ Len(req[r].written) = 1) =>
     /\ Entry(r, 1).success = TRUE
     /\ Entry(r, 1).row_count = req[r].res_rows
     /\ Entry(r, 1).execution_time_ms # Nil
     /\ Entry(r, 1).error_message = None
     /\ Entry(r, 1).sql_text = req[r].validated
     /\ req[r].res_sql = req[r].validated

(***************************************************************************)
(* Properties of the registry and of connection management                 *)
(***************************************************************************)
\* The adapters the registry holds for a type and a name.
Cached(ins, ads, db_type, name) ==
  {a \in {ins[k] : k \in DOMAIN ins} : ads[a].db_type = db_type /\ ads[a].name = name}

\* A call get_adapter(db_type, name) of this step returned the adapter a.
Returned(db_type, name, a) ==
  /\ adapters'[a].db_type = db_type /\ adapters'[a].name = name
  /\ a \in Cached(instances', adapters', db_type, name)
  /\ IF Cached(instances, adapters, db_type, name) # {}
     THEN a \in Cached(instances, adapters, db_type, name)
     ELSE a \notin DOMAIN adapters

\* C11: while the registry holds an entry for a type and a name, every
\* get_adapter call with that type and that name returns the one instance
\* of the entry, and the instance returned for another type or another name
\* is a different one; the first call for a type and a name creates a new
\* instance.
C11_Step ==
  /\ \A r \in Req :
        (req'[r].pc = "pool" /\ req[r].pc # "pool") =>
           Returned(req'[r].db_type, req'[r].name, req'[r].adapter[1])
  /\ (op' # op /\ op'.fn = "put" /\ op'.tested) => Returned(op'.db_type, "test", op'.adapter)
  /\ \A db_type \in DatabaseType, name \in Names \cup {"test"} :
        Cardinality(Cached(instances', adapters', db_type, name)) <= 1
  /\ \A k1, k2 \in DOMAIN instances' : k1 # k2 => instances'[k1] # instances'[k2]

C11_SameInstance == [][C11_Step]_vars

C11_Witness ==
  \E r \in Req :
     /\ req[r].pc = "pool" /\ req[r].name = "A"
     /\ \E q \in RowsOf(history, "A") : q.success
     /\ Cardinality(Cached(instances, adapters, "postgresql", "A")) = 1
     /\ adapters[req[r].adapter[1]].pool # Nil
     /\ \E a \in DOMAIN adapters : adapters[a].name = "test" /\ a # req[r].adapter[1]

\* C12: in every state, an adapter the registry holds for the name of a
\* stored connection has the url stored for that connection, so that after
\* the url is changed by PUT the next query of the name runs on the new url.
C12_CachedExecutorHasStoredUrl ==
  \A k \in DOMAIN instances :
     adapters[instances[k]].name \in DOMAIN connections =>
        adapters[instances[k]].url = connections[adapters[instances[k]].name].url

\* C13: after DELETE of a connection name has succeeded, the registry holds
\* no adapter for the name and no pool opened for the name, by an adapter or
\* by connection_factory for the metadata extraction, is open.
C13_DeleteTearsDown ==
  (op.fn = "delete" /\ op.status = 204) =>
     /\ \A k \in DOMAIN instances : adapters[instances[k]].name # op.name
     /\ \A a \in DOMAIN adapters :
           (adapters[a].name = op.name /\ adapters[a].pool # Nil) =>
              ~pools[adapters[a].pool[1]].open
     /\ \A db_type \in DatabaseType :
           op.name \in DOMAIN connection_pools[db_type] =>
              ~pools[connection_pools[db_type][op.name]].open

\* C14: when the shutdown handler has finished, every adapter created
\* through the registry has had its pool closed and no pool of either
\* database family is open.
C14_ShutdownClosesAll ==
  op.fn = "shutdown" =>
     /\ \A a \in DOMAIN adapters : adapters[a].pool = Nil
     /\ \A p \in DOMAIN pools : ~pools[p].open

\* C20: the result of every test_connection(db_type, url) is the outcome of
\* a connection attempt to the url of that call.
C20_TestsGivenUrl ==
  (op.fn = "put" /\ op.tested) =>
     /\ op.attempted = op.url
     /\ op.success = Reachable(op.url)

(***************************************************************************)
(* Property of concurrent pool creation (checked under SpecPool)           *)
(***************************************************************************)
\* The pool is referenced by the holder it was created for.
Held(p) ==
  \/ \E a \in DOMAIN adapters : adapters[a].pool = Some(p)
  \/ \E db_type \in DatabaseType :
        \E n \in DOMAIN connection_pools[db_type] : connection_pools[db_type][n] = p

\* C15: the callers of get_connection_pool for one holder all receive the
\* same pool, and every pool created is the one its holder keeps: no pool
\* is overwritten and left open.
C15_OnePoolPerHolder ==
  /\ \A p, q \in Procs :
        (proc[p].pc = "done" /\ proc[q].pc = "done" /\ proc[p].target = proc[q].target) =>
           proc[p].pool = proc[q].pool
  /\ \A p \in DOMAIN pools : pools[p].open => Held(p)

(***************************************************************************)
(* Properties of the metadata cache (checked under SpecMeta)               *)
(***************************************************************************)
MetaRows(md, name) == {m \in md : m.database_name = name}

\* The call of this step has put a payload for a name.
PutDone == op' # op /\ (op'.fn = "cache_metadata" \/ (op'.fn = "fetch_metadata" /\ op'.extracted))

PutPayload == IF op'.fn = "cache_metadata" THEN op'.payload ELSE op'.result

\* C16: the store holds at most one metadata row per connection name; a put
\* for a name that has a row keeps the id of the row and replaces its
\* payload and its fetch timestamp, a put for a name without a row inserts
\* one, and the rows of the other names are left as they are.
C16_Step ==
  /\ \A n \in Names : Cardinality(MetaRows(metadata', n)) <= 1
  /\ PutDone =>
        /\ \E m \in MetaRows(metadata', op'.name) :
              /\ m.metadata_json = json_dumps(PutPayload)
              /\ m.fetched_at = now'
              /\ op'.before # Nil => m.id = op'.before[1].id
              /\ op'.before = Nil => \A o \in metadata : o.id # m.id
        /\ \A n \in Names \ {op'.name} : MetaRows(metadata', n) = MetaRows(metadata, n)
  /\ ~PutDone => metadata' = metadata

C16_OneSnapshotPerName == [][C16_Step]_vars

C16_Witness ==
  /\ op.fn = "cache_metadata" /\ op.name = "A"
  /\ op.before # Nil /\ op.before[1].metadata_json = json_dumps(SchemaV1)
  /\ op.before[1].fetched_at < now
  /\ MetaRows(metadata, "A") =
       {[op.before[1] EXCEPT !.metadata_json = json_dumps(SchemaV2), !.fetched_at = now,
                              !.table_count = 3]}

\* The row the call found was not older than 24 hours.
FoundFresh == op.before # Nil /\ op.at - op.before[1].fetched_at <= 24 * 3600

\* C17: fetch_metadata returns the cached payload, without extraction and
\* without touching the store, exactly when force_refresh is false and the
\* name has a row that is not stale; in every other case it extracts once,
\* leaves one row for the name holding the extracted payload stamped with
\* the time of the call, and returns the extracted payload.
C17_FetchMetadata ==
  (op.fn = "fetch_metadata" /\ op.status = 200) =>
     /\ op.extracted <=> ~(~op.force_refresh /\ FoundFresh)
     /\ ~op.extracted =>
           /\ op.result = json_loads(op.before[1].metadata_json)
           /\ MetaRows(metadata, op.name) = {op.before[1]}
     /\ op.extracted =>
           /\ op.result \in Payloads
           /\ \E m \in metadata :
                 /\ MetaRows(metadata, op.name) = {m}
                 /\ json_loads(m.metadata_json) = op.result
                 /\ m.fetched_at = op.at
                 /\ op.before # Nil => m.id = op.before[1].id

C17_Witness ==
  /\ op.fn = "fetch_metadata" /\ op.status = 200 /\ ~op.force_refresh
  /\ op.before # Nil /\ op.at - op.before[1].fetched_at = 25 * 3600
  /\ op.extracted /\ op.result # json_loads(op.before[1].metadata_json)
  /\ Cardinality(MetaRows(metadata, op.name)) = 1

\* C18: a row is stale exactly when more than 24 hours have passed since
\* its fetch timestamp, at the time of the read: stale at 24 h + 1 s, not
\* stale at 23 h 59 min nor at 24 h; get_cached_metadata returns the row of
\* the name exactly when there is one and it is not stale, and a row is not
\* stale at the time it was put.
C18_Staleness ==
  /\ \A m \in metadata :
        /\ is_stale(m) <=> now - m.fetched_at >= 24 * 3600 + 1
        /\ now - m.fetched_at = 24 * 3600 + 1 => get_cached_metadata(metadata, m.database_name) = Nil
        /\ now - m.fetched_at \in {23 * 3600 + 59 * 60, 24 * 3600} =>
              get_cached_metadata(metadata, m.database_name) = Some(m)
        /\ m.fetched_at = now => get_cached_metadata(metadata, m.database_name) = Some(m)
  /\ op.fn = "get_cached_metadata" =>
        /\ op.result # Nil <=> FoundFresh
        /\ op.result # Nil => op.result = op.before

C18_Witness ==
  /\ op.fn = "get_cached_metadata"
  /\ op.before # Nil /\ op.at - op.before[1].fetched_at = 24 * 3600 + 1
  /\ op.result = Nil
  /\ now = op.at /\ is_stale(op.before[1])

(***************************************************************************)
(* Property of the extraction loop (checked under SpecExtract)             *)
(***************************************************************************)
\* The COUNT(*) query of the row gave a count.
Counted(row) == ~row.count.raises /\ row.count.value # Nil

\* C19: a row-count query that raises never aborts the extraction: when the
\* column queries succeed the extraction returns every table and every view
\* of the catalog, in order, with its columns; a table has the key rowCount
\* exactly when its count query gave a count, and a view never has it.
C19_RowCountFailure ==
  op.fn = "extract_metadata" =>
     /\ (\A i \in 1..Len(op.catalog) : ~op.catalog[i].columns_fail) => op.pc # "raised"
     /\ op.pc = "returned" =>
           /\ Len(op.tables) + Len(op.views) = Len(op.catalog)
           /\ \A j \in 1..Len(op.tables) :
                 LET t == op.tables[j]
                     row == op.catalog[t.name]
                 IN  /\ row.type = "table" /\ t.type = "table" /\ t.columns = <<"id">>
                     /\ "rowCount" \in DOMAIN t <=> Counted(row)
                     /\ Counted(row) => t.rowCount = row.count.value[1]
                     /\ j > 1 => op.tables[j - 1].name < t.name
           /\ \A j \in 1..Len(op.views) :
                 LET v == op.views[j]
                 IN  /\ op.catalog[v.name].type = "view" /\ v.type = "view" /\ v.columns = <<"id">>
                     /\ "rowCount" \notin DOMAIN v
                     /\ j > 1 => op.views[j - 1].name < v.name

C19_Witness ==
  /\ op.fn = "extract_metadata" /\ op.pc = "returned"
  /\ Len(op.catalog) = 2
  /\ op.catalog[1].type = "table" /\ op.catalog[1].count.raises
  /\ op.catalog[2].type = "view" /\ op.catalog[2].count.raises
  /\ Len(op.tables) = 1 /\ DOMAIN op.tables[1] = {"name", "type", "schemaName", "columns"}
  /\ Len(op.views) = 1


(***************************************************************************)
(* Properties of the API status codes and of the export tokens (checked    *)
(* under SpecExport)                                                       *)
(***************************************************************************)
\* C21: a request of the query endpoint or of the export endpoint whose SQL
\* the validator rejects ends with status 400 and the validator's message,
\* never with a 5xx status; a request that ends with status 500 failed on
\* the pool or on the execution, and carries the text of that error.
C21_ValidationFailureIs400 ==
  \A r \in Req : Ran(r) =>
     /\ req[r].raised = "SqlValidationError" =>
           /\ req[r].status = 400
           /\ req[r].error = validate_sql(req[r].sql, req[r].db_type).error
     /\ req[r].status = 500 =>
           /\ req[r].raised = "Exception"
           /\ req[r].error \in ExecErrors \cup PoolErrors

\* C28: the SQL an export request for a connection name has executed is the
\* SQL of a token that was issued for that name: a signed, unexpired token
\* issued for another name is not accepted.
C28_TokenBoundToConnection ==
  \A r \in Req : (req[r].endpoint = "export" /\ req[r].executed) =>
     \E t \in tokens : t.signed /\ t.database = req[r].name /\ t.sql = req[r].sql


(***************************************************************************)
(* Properties of the registry calls made one after the other (checked      *)
(* under SpecRegistry)                                                     *)
(***************************************************************************)
\* The adapter has no pool, or the pool it had is closed.
PoolGone(ads, ps, a, before) ==
  ads[a].pool = Nil /\ (before # Nil => ~ps[before[1]].open)

\* C22: close_adapter(db_type, name) removes the entry of that key from the
\* registry and closes the pool of its adapter, leaves every other entry,
\* every other adapter and every other pool as it was, and changes nothing
\* when the key has no entry; close_all_adapters closes the pool of every
\* cached adapter and leaves the registry empty.
C22_Step ==
  /\ (op' # op /\ op'.fn = "close_adapter") =>
        LET key == cache_key(op'.db_type, op'.name)
        IN  IF key \in DOMAIN instances
            THEN LET a == instances[key]
                 IN  /\ DOMAIN instances' = DOMAIN instances \ {key}
                     /\ \A k \in DOMAIN instances' : instances'[k] = instances[k]
                     /\ PoolGone(adapters', pools', a, adapters[a].pool)
                     /\ \A b \in DOMAIN adapters \ {a} : adapters'[b] = adapters[b]
                     /\ DOMAIN pools' = DOMAIN pools
                     /\ \A q \in DOMAIN pools :
                           adapters[a].pool # Some(q) => pools'[q] = pools[q]
            ELSE UNCHANGED <<instances, adapters, pools>>
  /\ (op' # op /\ op'.fn = "close_all_adapters") =>
        /\ instances' = <<>>
        /\ \A k \in DOMAIN instances :
              PoolGone(adapters', pools', instances[k], adapters[instances[k]].pool)
  /\ (op' # op /\ op'.fn \in {"close_adapter", "close_all_adapters"}) => UNCHANGED rvars

C22_CloseFrame == [][C22_Step]_vars

C22_Witness ==
  /\ op.fn = "close_adapter" /\ op.found /\ op.name = "A" /\ op.db_type = "postgresql"
  /\ \E p \in DOMAIN pools : ~pools[p].open /\ pools[p].db_type = "postgresql"
  /\ \E k \in DOMAIN instances :
        /\ k = cache_key("mysql", "A")
        /\ adapters[instances[k]].pool # Nil
        /\ pools[adapters[instances[k]].pool[1]].open

\* C23: on one adapter, get_connection_pool creates a pool when the adapter
\* holds none and otherwise returns the pool it holds without creating
\* another; close_connection_pool closes the pool held and clears the
\* handle, and does nothing when no pool is held; every open pool is the one
\* pool its adapter holds, so an adapter never has two open pools.
C23_Step ==
  /\ (op' # op /\ op'.fn = "get_connection_pool") =>
        LET a == op'.adapter
        IN  /\ IF adapters[a].pool = Nil
               THEN /\ op'.created
                    /\ op'.pool \notin DOMAIN pools
                    /\ DOMAIN pools' = DOMAIN pools \cup {op'.pool}
                    /\ pools'[op'.pool].open /\ pools'[op'.pool].url = adapters[a].url
               ELSE /\ ~op'.created
                    /\ op'.pool = adapters[a].pool[1]
                    /\ pools' = pools
            /\ adapters'[a].pool = Some(op'.pool)
            /\ \A b \in DOMAIN adapters \ {a} : adapters'[b] = adapters[b]
            /\ \A q \in DOMAIN pools : pools'[q] = pools[q]
  /\ (op' # op /\ op'.fn = "close_connection_pool") =>
        LET a == op'.adapter
        IN  /\ PoolGone(adapters', pools', a, adapters[a].pool)
            /\ DOMAIN pools' = DOMAIN pools
            /\ adapters[a].pool = Nil => UNCHANGED <<adapters, pools>>
            /\ \A b \in DOMAIN adapters \ {a} : adapters'[b] = adapters[b]
  /\ \A q \in DOMAIN pools' :
        pools'[q].open => Cardinality({a \in DOMAIN adapters' : adapters'[a].pool = Some(q)}) = 1

C23_PoolLifecycle == [][C23_Step]_vars

C23_Witness ==
  /\ op.fn = "get_connection_pool" /\ op.created
  /\ Cardinality(DOMAIN adapters) = 1
  /\ \E q \in DOMAIN pools : q # op.pool /\ ~pools[q].open
  /\ adapters[op.adapter].pool = Some(op.pool) /\ pools[op.pool].open

(***************************************************************************)
(* Property of the interleaved registry calls (checked under SpecRace)     *)
(***************************************************************************)
\* Every caller has returned.
AllFinished == \A p \in Procs : proc[p].pc \in {"idle", "done"}

\* C30: once every call has finished, an adapter that holds an open pool is
\* cached in the registry: an evicted adapter has no open pool, and
\* close_all_adapters drops no adapter whose pool it has not closed.
C30_NoPoolOnEvicted ==
  AllFinished =>
     \A a \in DOMAIN adapters :
        (adapters[a].pool # Nil /\ pools[adapters[a].pool[1]].open) =>
           \E k \in DOMAIN instances : instances[k] = a


(***************************************************************************)
(* Property of the rewritten SQL (checked under SpecValidator)             *)
(***************************************************************************)
\* C26: the text validate_and_transform_sql returns for an accepted query
\* has a LIMIT on its outermost SELECT; when the outermost SELECT of the
\* query has none, the LIMIT there is the cap, also when a subquery or CTE
\* of the query has a LIMIT of its own.
C26_OutermostSelectLimited ==
  (vres.fn = "validate_and_transform_sql" /\ ~vres.out.raised) =>
     /\ Head(vres.out.sql.stmts).limit # Nil
     /\ Head(vsql.stmts).limit = Nil => Head(vres.out.sql.stmts).limit = Some(vcap)


(***************************************************************************)
(* Property of the interleaved history trims (checked under SpecTrim)      *)
(***************************************************************************)
\* Two of the calls selected a same row for deletion.
StaleSelection ==
  \E p, q \in Procs :
     /\ p # q /\ proc[p].pc = "done" /\ proc[q].pc = "done"
     /\ proc[p].selected \cap proc[q].selected # {}

\* C25: once every interleaved save_query_history call has completed, a name
\* has at most HistoryKeep rows; none of its HistoryKeep most recent rows
\* was deleted, that is, it has all its rows or HistoryKeep of them, and no
\* row deleted is more recent than a row kept; and every deleted row is of a
\* name some call was made for.
C25_InterleavedTrim ==
  AllFinished =>
     /\ \A n \in HistoryNames :
           /\ Cardinality(RowsOf(history, n)) <= HistoryKeep
           /\ RowsOf(trimmed, n) # {} => Cardinality(RowsOf(history, n)) = HistoryKeep
           /\ \A q \in RowsOf(history, n), d \in RowsOf(trimmed, n) :
                 q.executed_at >= d.executed_at
     /\ \A d \in trimmed :
           \E p \in Procs : proc[p].pc = "done" /\ proc[p].target = <<"history", d.database_name>>

C25_Witness ==
  /\ AllFinished /\ StaleSelection
  /\ \A p \in Procs : proc[p].pc = "done" => proc[p].target = <<"history", "A">>
  /\ Cardinality(RowsOf(trimmed, "A")) = 2
  /\ Cardinality(RowsOf(history, "A")) = HistoryKeep
  /\ \E q \in trimmed, o \in history : q.executed_at = o.executed_at


(***************************************************************************)
(* Properties of the refused requests and of the metadata of a connection  *)
(* (checked under SpecCatalog)                                             *)
(***************************************************************************)
\* The request of this step was answered 404 or 400.
Refused ==
  \/ \E r \in Req : req'[r] # req[r] /\ req'[r].status = 404
  \/ op' # op /\ op'.fn \in {"put", "delete", "fetch_metadata", "history"}
              /\ op'.status \in {400, 404}

\* C24: a request answered 404 or 400 leaves the stored connections, the
\* metadata rows and the history rows as they were; a query, history,
\* metadata, refresh or delete request for a name that is not stored is
\* answered 404; a PUT with an invalid name, with a url or a type that is
\* not supported, with a type that is not the one of the url, or whose
\* connection test fails, is answered 400.
C24_Step ==
  /\ Refused => UNCHANGED <<connections, metadata, history>>
  /\ \A r \in Req :
        (req'[r] # req[r] /\ req'[r].endpoint = "query" /\ req'[r].name \notin DOMAIN connections) =>
           req'[r].pc = "done" /\ req'[r].status = 404
  /\ (op' # op /\ op'.fn \in {"delete", "fetch_metadata", "history"}
               /\ op'.name \notin DOMAIN connections) => op'.status = 404
  /\ (op' # op /\ op'.fn = "put") =>
        /\ ( \/ op'.name \in InvalidNames
             \/ detect_database_type(op'.url) \notin DatabaseType
             \/ op'.given # None /\ op'.given # detect_database_type(op'.url) ) =>
              op'.status = 400 /\ ~op'.tested
        /\ (op'.tested /\ ~op'.success) => op'.status = 400

C24_RefusedStoresNothing == [][C24_Step]_vars

C24_Witness ==
  /\ op.fn = "put" /\ op.status = 400 /\ op.name = "A"
  /\ op.tested /\ ~op.success /\ op.url = "postgresql://down"
  /\ connections["A"].url = "postgresql://a"
  /\ \E m \in metadata : m.database_name = "A"

\* C27: the payload fetch_metadata returns for a name, cached or extracted,
\* is the schema of the database at the url stored for the name at the time
\* of the call.
C27_PayloadOfStoredUrl ==
  (op.fn = "fetch_metadata" /\ op.status = 200) =>
     op.result = SchemaAt(connections[op.name].url)

\* C29: a fetch_metadata in which the pool or the extraction raises ends
\* with that error and without a payload, and leaves every metadata row as
\* it was; a fetch_metadata for a name leaves the rows of the other names as
\* they were.
C29_Step ==
  (op' # op /\ op'.fn = "fetch_metadata") =>
     /\ op'.status = 500 =>
           /\ op'.error \in {"connection refused", "permission denied"}
           /\ "result" \notin DOMAIN op'
           /\ metadata' = metadata /\ next_meta_id' = next_meta_id
     /\ \A n \in Names \ {op'.name} : MetaRows(metadata', n) = MetaRows(metadata, n)

C29_FailedFetchKeepsSnapshot == [][C29_Step]_vars

C29_Witness ==
  /\ op.fn = "fetch_metadata" /\ op.status = 500 /\ op.error = "permission denied"
  /\ op.force_refresh /\ op.before # Nil
  /\ MetaRows(metadata, op.name) = {op.before[1]}
  /\ op.before[1].fetched_at < op.at

====
